---- MODULE Spec2Model ----
(***************************************************************************)
(* TransferHttpCacheInterceptor (modules/common/src/transfer_http.ts).     *)
(*                                                                         *)
(* Strings that take part in the cache key are sequences of one-character  *)
(* strings, so that sorting and concatenation are computed as the code     *)
(* computes them.  Byte buffers are sequences of character codes.          *)
(***************************************************************************)
EXTENDS Integers, Sequences, FiniteSets, TLC

\* Number of request streams tracked at once.
MaxCalls == 2
\* Number of notifications the stability source emits.
MaxEmit == 2
\* Number of non-response events the transport emits on one request.
MaxProgress == 1

----------------------------------------------------------------------------
(* Characters and strings                                                  *)

Ascii ==
   <<
      " ", "!", "DQUOTE", "#", "$", "%", "&", "'", "(", ")", "*", "+", ",", "-", ".", "/",
      "0", "1", "2", "3", "4", "5", "6", "7", "8", "9", ":", ";", "<", "=", ">", "?",
      "@", "A", "B", "C", "D", "E", "F", "G", "H", "I", "J", "K", "L", "M", "N", "O",
      "P", "Q", "R", "S", "T", "U", "V", "W", "X", "Y", "Z", "[", "BACKSLASH", "]", "^", "_",
      "BACKTICK", "a", "b", "c", "d", "e", "f", "g", "h", "i", "j", "k", "l", "m", "n", "o",
      "p", "q", "r", "s", "t", "u", "v", "w", "x", "y", "z", "{", "|", "}", "~"
   >>

\* UTF-16 code unit of a printable ASCII character (the table spells out the
\* three characters that cannot be written as a one-character string here).
CharCode(c) == 31 + (CHOOSE i \in 1..Len(Ascii) : Ascii[i] = c)

\* a < b in the order Array.prototype.sort() uses without a comparator:
\* code unit by code unit, a proper prefix first.
RECURSIVE StrLess(_, _)
StrLess(a, b) ==
   IF b = <<>> THEN FALSE
   ELSE IF a = <<>> THEN TRUE
   ELSE IF CharCode(Head(a)) < CharCode(Head(b)) THEN TRUE
   ELSE IF CharCode(Head(a)) > CharCode(Head(b)) THEN FALSE
   ELSE StrLess(Tail(a), Tail(b))

\* Insert string s into the sorted sequence of strings ss.
RECURSIVE SortInsert(_, _)
SortInsert(s, ss) ==
   IF ss = <<>> THEN <<s>>
   ELSE IF StrLess(Head(ss), s) THEN <<Head(ss)>> \o SortInsert(s, Tail(ss))
   ELSE <<s>> \o ss

\* sort() leaving the array as it is.
ArraySort_Unsorted(ss) == ss

\* Array.prototype.sort() on an array of strings.
RECURSIVE ArraySort(_)
ArraySort(ss) ==
   IF ss = <<>> THEN <<>> ELSE SortInsert(Head(ss), ArraySort(Tail(ss)))

\* Array.prototype.join(sep) on an array of strings.
RECURSIVE ArrayJoin(_, _)
ArrayJoin(ss, sep) ==
   IF ss = <<>> THEN <<>>
   ELSE IF Len(ss) = 1 THEN ss[1]
   ELSE ss[1] \o sep \o ArrayJoin(Tail(ss), sep)

\* String conversion of an array of strings (template literal): join(',').
ArrayToString(ss) == ArrayJoin(ss, <<",">>)

\* String conversion of a ResponseType.
ResponseTypeChars(rt) ==
   CASE rt = "json" -> <<"j", "s", "o", "n">>
     [] rt = "text" -> <<"t", "e", "x", "t">>
     [] rt = "blob" -> <<"b", "l", "o", "b">>
     [] rt = "arraybuffer" ->
          <<"a", "r", "r", "a", "y", "b", "u", "f", "f", "e", "r">>

ResponseTypes == {"json", "text", "arraybuffer", "blob"}

----------------------------------------------------------------------------
(* HttpParams: the entries in insertion order, one per name.               *)

\* HttpParams.keys()
ParamsKeys(params) == [i \in 1..Len(params) |-> params[i].name]

\* HttpParams.getAll(k) for a name of keys()
ParamsGetAll(params, k) ==
   LET i == CHOOSE j \in 1..Len(params) : params[j].name = k
   IN  params[i].values

\* params.keys().sort().map(k => k + '=' + params.getAll(k)).join('&')
EncodedParams(params) ==
   LET sorted == ArraySort(ParamsKeys(params))
       pairs  == [i \in 1..Len(sorted) |->
                    sorted[i] \o <<"=">> \o ArrayToString(ParamsGetAll(params, sorted[i]))]
   IN  ArrayJoin(pairs, <<"&">>)

\* A prefix that does not tell the methods apart.
MethodPrefix_AlwaysGet(method) == <<"G", ".">>

\* 'G.' or 'H.'
MethodPrefix(method) == IF method = "GET" THEN <<"G", ".">> ELSE <<"H", ".">>

makeCacheKey(method, url, params, responseType) ==
   MethodPrefix(method) \o ResponseTypeChars(responseType) \o <<".">>
      \o url \o <<"?">> \o EncodedParams(params)

----------------------------------------------------------------------------
(* Values: response bodies, nullable strings, headers                      *)

\* A body is a string, a JSON object, an ArrayBuffer, a Blob, null or
\* undefined; one record shape carries them all.
StringBody(cs)      == [kind |-> "string", chars |-> cs, bytes |-> <<>>, json |-> 0]
JsonBody(n)         == [kind |-> "object", chars |-> <<>>, bytes |-> <<>>, json |-> n]
ArrayBufferBody(bs) == [kind |-> "ArrayBuffer", chars |-> <<>>, bytes |-> bs, json |-> 0]
BlobBody(bs)        == [kind |-> "Blob", chars |-> <<>>, bytes |-> bs, json |-> 0]
NullBody            == [kind |-> "null", chars |-> <<>>, bytes |-> <<>>, json |-> 0]
UndefinedBody       == [kind |-> "undefined", chars |-> <<>>, bytes |-> <<>>, json |-> 0]

\* String(x) for a body x.
ToStringJS(x) ==
   CASE x.kind = "string" -> x.chars
     [] x.kind = "object" ->
          <<"[", "o", "b", "j", "e", "c", "t", " ", "O", "b", "j", "e", "c", "t", "]">>
     [] x.kind = "ArrayBuffer" ->
          <<"[", "o", "b", "j", "e", "c", "t", " ",
            "A", "r", "r", "a", "y", "B", "u", "f", "f", "e", "r", "]">>
     [] x.kind = "Blob" ->
          <<"[", "o", "b", "j", "e", "c", "t", " ", "B", "l", "o", "b", "]">>
     [] x.kind = "null" -> <<"n", "u", "l", "l">>
     [] x.kind = "undefined" -> <<"u", "n", "d", "e", "f", "i", "n", "e", "d">>

\* UTF-8 bytes of an ASCII string.
Utf8(cs) == [i \in 1..Len(cs) |-> CharCode(cs[i])]

\* new TextEncoder().encode(x).buffer: the argument is converted to a string
\* (an omitted/undefined argument is the empty string) and UTF-8 encoded.
TextEncoderEncodeBuffer(x) ==
   IF x.kind = "undefined" THEN ArrayBufferBody(<<>>)
   ELSE ArrayBufferBody(Utf8(ToStringJS(x)))

\* new Blob([x]): an ArrayBuffer or Blob part contributes its bytes, any other
\* part the UTF-8 bytes of its string conversion.
NewBlob(x) ==
   IF x.kind \in {"ArrayBuffer", "Blob"} THEN BlobBody(x.bytes)
   ELSE BlobBody(Utf8(ToStringJS(x)))

\* A string or null.
NullStr  == [null |-> TRUE, str |-> <<>>]
Str(cs)  == [null |-> FALSE, str |-> cs]
\* x || d for a nullable string x
OrElse(x, d) == IF x.null \/ x.str = <<>> THEN d ELSE x

\* Header maps (Record<string, string[]>) and HttpHeaders are functions from
\* header names to lists of values.
NoHeaders == [n \in {} |-> <<>>]

\* HttpHeaders.keys() / HttpHeaders.getAll(name)
HeadersKeys(headers) == DOMAIN headers
HeadersGetAll(headers, name) == headers[name]

\* getHeadersMap(headers): every name of keys() with all of its values.
getHeadersMap(headers) ==
   [key \in HeadersKeys(headers) |-> HeadersGetAll(headers, key)]

\* new HttpHeaders(map): a name with an empty list of values is not set.
NewHttpHeaders(map) ==
   [name \in {n \in DOMAIN map : Len(map[n]) > 0} |-> map[name]]

----------------------------------------------------------------------------
(* Events of the transport and the stored record                           *)

\* A status that is undefined (status?: number).
UndefinedStatus == 0 - 1

\* new HttpResponse(init): an undefined body is null, an undefined status 200,
\* an undefined or empty status text 'OK', an undefined or empty url null.
NewHttpResponse(body, headers, status, statusText, url) ==
   [type       |-> "Response",
    body       |-> IF body.kind = "undefined" THEN NullBody ELSE body,
    headers    |-> headers,
    status     |-> IF status = UndefinedStatus THEN 200 ELSE status,
    statusText |-> IF statusText = "" THEN "OK" ELSE statusText,
    url        |-> OrElse(url, NullStr)]

\* An event that is not an HttpResponse (upload/download progress).
ProgressEvent ==
   [type |-> "Progress", body |-> NullBody, headers |-> NoHeaders,
    status |-> 0, statusText |-> "", url |-> NullStr]

\* event instanceof HttpResponse
IsHttpResponse(event) == event.type = "Response"

\* MakeRecord tagging every record as JSON.
MakeRecord_JsonType(event, req) ==
   [body         |-> event.body,
    headers      |-> getHeadersMap(event.headers),
    status       |-> event.status,
    statusText   |-> event.statusText,
    url          |-> OrElse(event.url, Str(<<>>)),
    responseType |-> "json"]

\* MakeRecord keeping only the first value of every header.
MakeRecord_FirstValueOnly(event, req) ==
   [body         |-> event.body,
    headers      |-> [key \in HeadersKeys(event.headers) |->
                        <<Head(HeadersGetAll(event.headers, key))>>],
    status       |-> event.status,
    statusText   |-> event.statusText,
    url          |-> OrElse(event.url, Str(<<>>)),
    responseType |-> req.responseType]

\* The TransferHttpResponse written for a response event of request req.
MakeRecord(event, req) ==
   [body         |-> event.body,
    headers      |-> getHeadersMap(event.headers),
    status       |-> event.status,
    statusText   |-> event.statusText,
    url          |-> OrElse(event.url, Str(<<>>)),
    responseType |-> req.responseType]

\* A replay that fails on a record without a response type it knows.
HitBody_RejectsUnknown(response) ==
   CASE response.responseType = "arraybuffer" -> TextEncoderEncodeBuffer(response.body)
     [] response.responseType = "blob" -> NewBlob(response.body)
     [] response.responseType \in {"json", "text"} -> response.body
     [] OTHER -> [kind |-> "TypeError", chars |-> <<>>, bytes |-> <<>>, json |-> 0]

\* HitBody without the switch on the stored response type.
HitBody_PassThrough(response) == response.body

\* The body replayed for a stored record.
HitBody(response) ==
   CASE response.responseType = "arraybuffer" -> TextEncoderEncodeBuffer(response.body)
     [] response.responseType = "blob" -> NewBlob(response.body)
     [] OTHER -> response.body

\* The HttpResponse replayed for a stored record.
HitResponse(response) ==
   NewHttpResponse(HitBody(response), NewHttpHeaders(response.headers),
                   response.status, response.statusText, response.url)

\* TransferState.hasKey / get / set on the store (a function from keys).
hasKey(st, key) == key \in DOMAIN st
get(st, key) == st[key]
\* A set() that keeps the value a key already has.
set_KeepFirst(st, key, value) ==
   [k \in DOMAIN st \cup {key} |-> IF k \in DOMAIN st THEN st[k] ELSE value]

set(st, key, value) ==
   [k \in DOMAIN st \cup {key} |-> IF k = key THEN value ELSE st[k]]

----------------------------------------------------------------------------
(* The stability signal: appRef.isStable.pipe(first(p), defaultIfEmpty(false)) *)

NextNotification(v) == [kind |-> "N", value |-> v]
CompleteNotification == [kind |-> "C", value |-> FALSE]
ErrorNotification    == [kind |-> "E", value |-> FALSE]

\* first() without its predicate: any notification matches.
FirstPredicate_Any(isStable) == TRUE

\* The predicate given to first(): (isStable) => isStable
FirstPredicate(isStable) == isStable

\* What first(predicate) sends downstream for a notification of its source,
\* while it is subscribed (it has then sent nothing yet): the first matching
\* value followed by completion; an EmptyError when the source completes
\* without a match (no default value is given to first); a source error as is.
FirstOperator(n) ==
   CASE n.kind = "N" ->
          IF FirstPredicate(n.value) THEN <<NextNotification(n.value), CompleteNotification>>
          ELSE <<>>
     [] n.kind = "C" -> <<ErrorNotification>>
     [] n.kind = "E" -> <<ErrorNotification>>

\* What defaultIfEmpty(false) sends downstream for the notifications ns of its
\* source: values and errors as they are, the default value before a completion
\* that no value preceded.
RECURSIVE DefaultIfEmptyOperator(_, _)
DefaultIfEmptyOperator(ns, hasValue) ==
   IF ns = <<>> THEN <<>>
   ELSE CASE Head(ns).kind = "N" ->
               <<Head(ns)>> \o DefaultIfEmptyOperator(Tail(ns), TRUE)
          [] Head(ns).kind = "C" ->
               IF hasValue THEN <<CompleteNotification>>
               ELSE <<NextNotification(FALSE), CompleteNotification>>
          [] Head(ns).kind = "E" -> <<ErrorNotification>>

\* Notifications reaching the subscriber for a notification n of isStable.
StablePipe(n) == DefaultIfEmptyOperator(FirstOperator(n), FALSE)

\* Number of values among the notifications ns: the subscriber has a next
\* callback only.
RECURSIVE NextCount(_)
NextCount(ns) ==
   IF ns = <<>> THEN 0
   ELSE (IF Head(ns).kind = "N" THEN 1 ELSE 0) + NextCount(Tail(ns))

\* State of the subscription after the notifications ns.
SubscriptionAfter(ns) ==
   IF \E i \in 1..Len(ns) : ns[i].kind = "E" THEN "error"
   ELSE IF \E i \in 1..Len(ns) : ns[i].kind = "C" THEN "complete"
   ELSE "open"

\* The flag initialised the other way round.
isCacheActiveInit_Inactive == FALSE

\* private isCacheActive = true
isCacheActiveInit == TRUE

\* The subscriber's callback: this.isCacheActive = false
DeactivateCallback(active) == FALSE

----------------------------------------------------------------------------
(* Requests and the transport's responses                                  *)

UrlA == <<"/", "a">>

\* sort=1&sort=2&page=3 and page=3&sort=1&sort=2
ParamsSortPage ==
   << [name |-> <<"s", "o", "r", "t">>, values |-> << <<"1">>, <<"2">> >>],
      [name |-> <<"p", "a", "g", "e">>, values |-> << <<"3">> >>] >>
ParamsPageSort ==
   << [name |-> <<"p", "a", "g", "e">>, values |-> << <<"3">> >>],
      [name |-> <<"s", "o", "r", "t">>, values |-> << <<"1">>, <<"2">> >>] >>

Request(method, url, params, responseType, reportProgress) ==
   [method |-> method, url |-> url, params |-> params, responseType |-> responseType,
    reportProgress |-> reportProgress]

\* The requests an application issues: JSON requests that differ in the order
\* of their parameters only, and a POST; or requests for binary bodies and a
\* HEAD request.
RequestsJson ==
   { Request("GET", UrlA, ParamsSortPage, "json", TRUE),
     Request("GET", UrlA, ParamsPageSort, "json", FALSE),
     Request("POST", UrlA, ParamsSortPage, "json", FALSE) }
RequestsBinary ==
   { Request("GET", UrlA, <<>>, "arraybuffer", FALSE),
     Request("GET", UrlA, <<>>, "blob", FALSE),
     Request("HEAD", UrlA, <<>>, "text", FALSE) }

Applications == {RequestsJson, RequestsBinary}

NoRequest == Request("", <<>>, <<>>, "", FALSE)

\* The body the transport produces for a request: null for HEAD, otherwise
\* of the representation the response type asks for.
TransportBody(req, n) ==
   IF req.method = "HEAD" THEN NullBody
   ELSE CASE req.responseType = "json" -> JsonBody(n)
          [] req.responseType = "text" -> StringBody(<<"t", Ascii[CharCode("0") - 31 + n]>>)
          [] req.responseType = "arraybuffer" -> ArrayBufferBody(<<CharCode("t"), n>>)
          [] req.responseType = "blob" -> BlobBody(<<CharCode("t"), n>>)

HeadersOne == [n \in {"Content-Type"} |-> <<"a/b">>]
HeadersTwo == [n \in {"Set-Cookie", "ETag"} |-> IF n = "ETag" THEN <<"e">> ELSE <<"c1", "c2">>]

\* The success responses the transport may produce for a request: two
\* different ones for a JSON request, one otherwise.
TransportResponses(req) ==
   { NewHttpResponse(TransportBody(req, 1), HeadersTwo, 200, "OK", Str(req.url)) }
      \cup (IF req.responseType = "json"
            THEN { NewHttpResponse(TransportBody(req, 2), HeadersOne, 203,
                                   "Non-Authoritative", NullStr) }
            ELSE {})

\* What the optional chaining (response?.body, ...) reads from a stored null:
\* every field undefined.
NoRecord ==
   [body |-> UndefinedBody, headers |-> NoHeaders, status |-> UndefinedStatus,
    statusText |-> "", url |-> NullStr, responseType |-> ""]

----------------------------------------------------------------------------
(* State                                                                   *)

VARIABLES
   isCacheActive,   \* the interceptor's lifecycle flag
   store,           \* the TransferState: key -> TransferHttpResponse
   srcState,        \* appRef.isStable: "live", "completed" or "errored"
   subState,        \* the constructor's subscription: "open", "complete", "error"
   signalLog,       \* the values isStable has emitted, in order
   deactivations,   \* number of runs of the subscriber's callback
   calls,           \* the request streams: what intercept() did and returned
   requests,        \* the requests the application issues
   probe            \* arguments and results of makeCacheKey applied on its own

vars == <<isCacheActive, store, srcState, subState, signalLog, deactivations, calls,
          requests, probe>>

Slots == 1..MaxCalls

\* No application of makeCacheKey on its own.
NoProbe == [stage |-> "none", a |-> NoRequest, b |-> NoRequest, keyA |-> <<>>, keyB |-> <<>>]

\* A request stream.  req, active, refKey, present and cached record what
\* was the case when intercept() was called (the request, the lifecycle flag,
\* the request's key, whether the store held it, and the record it held);
\* emitted is what the transport has emitted, delivered what the caller has
\* received; inHandlerOf is the key of the miss whose response handler issued
\* the request (empty otherwise); the counters count the calls intercept()
\* and its tap made.
IdleCall ==
   [phase |-> "idle", req |-> NoRequest, active |-> FALSE, refKey |-> <<>>,
    present |-> FALSE, cached |-> NoRecord, path |-> "", storeKey |-> <<>>,
    emitted |-> <<>>, delivered |-> <<>>, inHandlerOf |-> <<>>,
    nHandle |-> 0, nKey |-> 0, nHas |-> 0, nGet |-> 0, nSet |-> 0]

Init ==
   /\ isCacheActive = isCacheActiveInit
   /\ store = [k \in {} |-> NoRecord]
   /\ srcState = "live"
   /\ subState = "open"
   /\ signalLog = <<>>
   /\ deactivations = 0
   /\ calls = [s \in Slots |-> IdleCall]
   /\ requests \in Applications
   /\ probe = NoProbe

----------------------------------------------------------------------------
(* The stability signal notifies                                           *)

\* A notification n of isStable runs through the pipe to the subscriber, if
\* the subscription is still open.
Notify(n) ==
   IF subState = "open"
   THEN LET out == StablePipe(n)
        IN  /\ subState' = SubscriptionAfter(out)
            /\ deactivations' = deactivations + NextCount(out)
            /\ isCacheActive' = IF NextCount(out) > 0
                                THEN DeactivateCallback(isCacheActive)
                                ELSE isCacheActive
   ELSE UNCHANGED <<subState, deactivations, isCacheActive>>

StableNext(v) ==
   /\ srcState = "live"
   /\ Len(signalLog) < MaxEmit
   /\ signalLog' = Append(signalLog, v)
   /\ Notify(NextNotification(v))
   /\ UNCHANGED <<store, srcState, calls, requests, probe>>

StableComplete ==
   /\ srcState = "live"
   /\ srcState' = "completed"
   /\ Notify(CompleteNotification)
   /\ UNCHANGED <<store, signalLog, calls, requests, probe>>

StableError ==
   /\ srcState = "live"
   /\ srcState' = "errored"
   /\ Notify(ErrorNotification)
   /\ UNCHANGED <<store, signalLog, calls, requests, probe>>

----------------------------------------------------------------------------
(* intercept(req, next)                                                    *)

\* IsBypass without the test of the method.
IsBypass_LifecycleOnly(active, method) == ~active

\* IsBypass without the test of the lifecycle flag.
IsBypass_MethodOnly(active, method) == method # "GET" /\ method # "HEAD"

\* !this.isCacheActive || (req.method !== 'GET' && req.method !== 'HEAD')
IsBypass(active, method) == ~active \/ (method # "GET" /\ method # "HEAD")

\* The slot a new request stream takes: the first one not in flight.
FreeSlot(s) ==
   /\ calls[s].phase # "pending"
   /\ \A t \in Slots : t < s => calls[t].phase = "pending"

Intercept(s, req) ==
   /\ FreeSlot(s)
   /\ req \in requests
   /\ LET refKey == makeCacheKey(req.method, req.url, req.params, req.responseType)
          new == [IdleCall EXCEPT !.req = req, !.active = isCacheActive,
                                  !.refKey = refKey,
                                  !.present = refKey \in DOMAIN store,
                                  !.cached = IF refKey \in DOMAIN store
                                             THEN store[refKey] ELSE NoRecord]
      IN  IF IsBypass(isCacheActive, req.method)
          THEN \* return next.handle(req)
               calls' = [calls EXCEPT ![s] =
                  [new EXCEPT !.phase = "pending", !.path = "bypass", !.nHandle = 1]]
          ELSE LET storeKey == makeCacheKey(req.method, req.url, req.params,
                                            req.responseType)
               IN  IF hasKey(store, storeKey)
                   THEN LET response == get(store, storeKey)
                        IN  calls' = [calls EXCEPT ![s] =
                               [new EXCEPT !.phase = "complete", !.path = "hit",
                                           !.storeKey = storeKey,
                                           !.delivered = <<HitResponse(response)>>,
                                           !.nKey = 1, !.nHas = 1, !.nGet = 1]]
                   ELSE \* next.handle(req).pipe(tap(...))
                        calls' = [calls EXCEPT ![s] =
                               [new EXCEPT !.phase = "pending", !.path = "miss",
                                           !.storeKey = storeKey,
                                           !.nKey = 1, !.nHas = 1, !.nHandle = 1]]
   /\ UNCHANGED <<isCacheActive, store, srcState, subState, signalLog, deactivations,
                   requests, probe>>

\* The tap callback without the instanceof test.
TapStores_Always(event) == TRUE

\* The tap callback writes the store for: event instanceof HttpResponse
TapStores(event) == IsHttpResponse(event)

\* A tap that passes on the response as it was stored (url: event.url || '').
TapForward_AsStored(event) ==
   IF IsHttpResponse(event) THEN [event EXCEPT !.url = OrElse(event.url, Str(<<>>))]
   ELSE event

\* The event the tap operator passes on to the caller.
TapForward(event) == event

\* Number of non-response events among es.
RECURSIVE ProgressCount(_)
ProgressCount(es) ==
   IF es = <<>> THEN 0
   ELSE (IF IsHttpResponse(Head(es)) THEN 0 ELSE 1) + ProgressCount(Tail(es))

\* The events the transport may emit next on stream s.
TransportEvents(s) ==
   IF calls[s].phase = "pending"
   THEN TransportResponses(calls[s].req)
           \cup (IF calls[s].req.reportProgress
                    /\ ProgressCount(calls[s].emitted) < MaxProgress
                 THEN {ProgressEvent} ELSE {})
   ELSE {}

\* The transport emits an event on stream s; a response event is followed by
\* completion.  On the miss path the event goes through the tap.
TransportNext(s, event) ==
   /\ calls[s].phase = "pending"
   /\ event \in TransportEvents(s)
   /\ LET c == calls[s]
          writes == c.path = "miss" /\ TapStores(event)
          out == IF c.path = "miss" THEN TapForward(event) ELSE event
      IN  /\ store' = IF writes THEN set(store, c.storeKey, MakeRecord(event, c.req))
                      ELSE store
          /\ calls' = [calls EXCEPT ![s] =
                [c EXCEPT !.emitted = Append(c.emitted, event),
                          !.delivered = Append(c.delivered, out),
                          !.nSet = c.nSet + (IF writes THEN 1 ELSE 0),
                          !.phase = IF IsHttpResponse(event) THEN "complete" ELSE "pending"]]
   /\ UNCHANGED <<isCacheActive, srcState, subState, signalLog, deactivations, requests,
                   probe>>

\* The transport fails: the error notification passes the tap untouched.
TransportError(s) ==
   /\ calls[s].phase = "pending"
   /\ calls' = [calls EXCEPT ![s].phase = "errored"]
   /\ UNCHANGED <<isCacheActive, store, srcState, subState, signalLog, deactivations,
                   requests, probe>>

\* The caller unsubscribes before a response event: the transport is
\* unsubscribed with it.
Cancel(s) ==
   /\ calls[s].phase = "pending"
   /\ calls' = [calls EXCEPT ![s].phase = "cancelled"]
   /\ UNCHANGED <<isCacheActive, store, srcState, subState, signalLog, deactivations,
                   requests, probe>>

Next ==
   \/ \E v \in BOOLEAN : StableNext(v)
   \/ StableComplete
   \/ StableError
   \/ \E s \in Slots : \E req \in requests : Intercept(s, req)
   \/ \E s \in Slots : \E event \in TransportEvents(s) : TransportNext(s, event)
   \/ \E s \in Slots : TransportError(s)
   \/ \E s \in Slots : Cancel(s)

Spec == Init /\ [][Next]_vars

\* The transport and the callers take their steps; the stability source is
\* free to stay silent.
FairSpec ==
   /\ Spec
   /\ \A s \in Slots : WF_vars(\E event \in TransportEvents(s) :
                                 IsHttpResponse(event) /\ TransportNext(s, event))

\* The store's set() throws inside the tap callback: the tap operator sends
\* the thrown error to the caller in place of the event, which ends the stream.
TapSetThrows(s, event) ==
   /\ calls[s].phase = "pending"
   /\ calls[s].path = "miss"
   /\ event \in TransportEvents(s)
   /\ TapStores(event)
   /\ calls' = [calls EXCEPT ![s] =
         [calls[s] EXCEPT !.emitted = Append(calls[s].emitted, event),
                          !.nSet = calls[s].nSet + 1,
                          !.phase = "setFailed"]]
   /\ UNCHANGED <<isCacheActive, store, srcState, subState, signalLog, deactivations,
                   requests, probe>>

\* The interceptor with a State Store whose set() may fail.
ThrowingStoreNext ==
   \/ Next
   \/ \E s \in Slots : \E event \in TransportEvents(s) : TapSetThrows(s, event)

ThrowingStoreSpec == Init /\ [][ThrowingStoreNext]_vars

----------------------------------------------------------------------------
(* makeCacheKey as a function of its arguments                             *)

UrlWithQuery == <<"/", "a", "?", "x", "=", "1">>

\* x=1&x=2, x=2&x=1 and one value "1,2"
ParamsX12 == << [name |-> <<"x">>, values |-> << <<"1">>, <<"2">> >>] >>
ParamsX21 == << [name |-> <<"x">>, values |-> << <<"2">>, <<"1">> >>] >>
ParamsXComma == << [name |-> <<"x">>, values |-> << <<"1", ",", "2">> >>] >>

\* x=1&y=2, y=2&x=1, and one parameter x whose value is "1&y=2" or "1?y=2"
ParamsX1Y2 ==
   << [name |-> <<"x">>, values |-> << <<"1">> >>],
      [name |-> <<"y">>, values |-> << <<"2">> >>] >>
ParamsY2X1 ==
   << [name |-> <<"y">>, values |-> << <<"2">> >>],
      [name |-> <<"x">>, values |-> << <<"1">> >>] >>
ParamsXAmp == << [name |-> <<"x">>, values |-> << <<"1", "&", "y", "=", "2">> >>] >>
ParamsXQuery == << [name |-> <<"x">>, values |-> << <<"1", "?", "y", "=", "2">> >>] >>
ParamsY2 == << [name |-> <<"y">>, values |-> << <<"2">> >>] >>

\* Upper case sorts before lower case, a prefix before its extensions.
ParamsMixed ==
   << [name |-> <<"a", "b">>, values |-> << <<"1">> >>],
      [name |-> <<"a">>, values |-> << <<".">> >>],
      [name |-> <<"Z">>, values |-> << <<>> >>] >>

KeyUrls == {UrlA, UrlWithQuery}

KeyParams ==
   { <<>>, ParamsSortPage, ParamsPageSort, ParamsX12, ParamsX21, ParamsXComma,
     ParamsX1Y2, ParamsY2X1, ParamsXAmp, ParamsXQuery, ParamsY2, ParamsMixed }

\* The argument lists of makeCacheKey: it is called for GET and HEAD only.
KeyArguments ==
   { Request(m, u, ps, rt, FALSE) :
        m \in {"GET", "HEAD"}, u \in KeyUrls, ps \in KeyParams, rt \in {"json", "text"} }

\* Two argument lists are drawn; nothing else of the interceptor moves.
KeyInit ==
   /\ isCacheActive = isCacheActiveInit
   /\ store = [k \in {} |-> NoRecord]
   /\ srcState = "live"
   /\ subState = "open"
   /\ signalLog = <<>>
   /\ deactivations = 0
   /\ calls = [s \in Slots |-> IdleCall]
   /\ requests = RequestsJson
   /\ probe \in { [NoProbe EXCEPT !.stage = "arguments", !.a = a, !.b = b] :
                     a \in KeyArguments, b \in KeyArguments }

\* makeCacheKey is applied to both argument lists.
ComputeKeys ==
   /\ probe.stage = "arguments"
   /\ probe' = [probe EXCEPT
         !.stage = "keys",
         !.keyA = makeCacheKey(probe.a.method, probe.a.url, probe.a.params,
                               probe.a.responseType),
         !.keyB = makeCacheKey(probe.b.method, probe.b.url, probe.b.params,
                               probe.b.responseType)]
   /\ UNCHANGED <<isCacheActive, store, srcState, subState, signalLog, deactivations,
                   calls, requests>>

KeyNext == ComputeKeys

KeySpec == KeyInit /\ [][KeyNext]_vars

----------------------------------------------------------------------------
(* A State Store that holds records the interceptor did not write           *)

\* A record without a responseType field, and one whose responseType is
\* none of the ResponseType values and that lacks status and status text.
RecordWithoutType ==
   [body |-> StringBody(<<"t", "1">>), headers |-> HeadersOne, status |-> 200,
    statusText |-> "OK", url |-> Str(UrlA), responseType |-> ""]
RecordOfUnknownType ==
   [body |-> JsonBody(1), headers |-> NoHeaders, status |-> UndefinedStatus,
    statusText |-> "", url |-> NullStr, responseType |-> "document"]

\* What get() may return for a key that was set elsewhere; NoRecord is a
\* stored null.
ForeignRecords == {NoRecord, RecordWithoutType, RecordOfUnknownType}

\* The keys of the requests of an application that makeCacheKey is called for.
KeysOf(reqs) ==
   { makeCacheKey(r.method, r.url, r.params, r.responseType) :
        r \in {q \in reqs : q.method \in {"GET", "HEAD"}} }

\* The interceptor is constructed over a store that already holds records
\* under some of the keys.
ForeignInit ==
   /\ isCacheActive = isCacheActiveInit
   /\ requests \in Applications
   /\ \E ks \in SUBSET KeysOf(requests) : store \in [ks -> ForeignRecords]
   /\ srcState = "live"
   /\ subState = "open"
   /\ signalLog = <<>>
   /\ deactivations = 0
   /\ calls = [s \in Slots |-> IdleCall]
   /\ probe = NoProbe

ForeignSpec == ForeignInit /\ [][Next]_vars

----------------------------------------------------------------------------
(* A caller whose response handler issues a request                        *)

\* The tap operator forwarding the event before it runs its callback.
StoreSeenByHandler_ForwardFirst(before, after) == before

\* The store the caller's handler finds: tap runs its callback, which writes
\* the store, and only then passes the event on.
StoreSeenByHandler(before, after) == after

\* intercept(req, next) called over the store st while the flag is active:
\* the stream it returns.
InterceptIn(st, req, active) ==
   LET refKey == makeCacheKey(req.method, req.url, req.params, req.responseType)
       new == [IdleCall EXCEPT !.req = req, !.active = active, !.refKey = refKey,
                               !.present = refKey \in DOMAIN st,
                               !.cached = IF refKey \in DOMAIN st
                                          THEN st[refKey] ELSE NoRecord]
   IN  IF IsBypass(active, req.method)
       THEN [new EXCEPT !.phase = "pending", !.path = "bypass", !.nHandle = 1]
       ELSE IF hasKey(st, refKey)
            THEN [new EXCEPT !.phase = "complete", !.path = "hit", !.storeKey = refKey,
                             !.delivered = <<HitResponse(get(st, refKey))>>,
                             !.nKey = 1, !.nHas = 1, !.nGet = 1]
            ELSE [new EXCEPT !.phase = "pending", !.path = "miss", !.storeKey = refKey,
                             !.nKey = 1, !.nHas = 1, !.nHandle = 1]

\* The transport emits a response on stream s, and the caller's handler,
\* running inside that emission, calls intercept() for req, whose stream
\* takes slot t.
HandlerIntercepts(s, event, t, req) ==
   /\ calls[s].phase = "pending"
   /\ event \in TransportEvents(s)
   /\ IsHttpResponse(event)
   /\ t # s
   /\ calls[t].phase # "pending"
   /\ req \in requests
   /\ LET c == calls[s]
          writes == c.path = "miss" /\ TapStores(event)
          out == IF c.path = "miss" THEN TapForward(event) ELSE event
          after == IF writes THEN set(store, c.storeKey, MakeRecord(event, c.req))
                   ELSE store
          nested == InterceptIn(StoreSeenByHandler(store, after), req, isCacheActive)
      IN  /\ store' = after
          /\ calls' = [calls EXCEPT
                ![s] = [c EXCEPT !.emitted = Append(c.emitted, event),
                                 !.delivered = Append(c.delivered, out),
                                 !.nSet = c.nSet + (IF writes THEN 1 ELSE 0),
                                 !.phase = "complete"],
                ![t] = [nested EXCEPT !.inHandlerOf =
                                         IF c.path = "miss" THEN c.storeKey ELSE <<>>]]
   /\ UNCHANGED <<isCacheActive, srcState, subState, signalLog, deactivations, requests,
                   probe>>

ReentrantNext ==
   \/ Next
   \/ \E s, t \in Slots : \E event \in TransportEvents(s) : \E req \in requests :
         HandlerIntercepts(s, event, t, req)

ReentrantSpec == Init /\ [][ReentrantNext]_vars

TypeOK ==
   /\ isCacheActive \in BOOLEAN
   /\ srcState \in {"live", "completed", "errored"}
   /\ subState \in {"open", "complete", "error"}
   /\ deactivations \in 0..MaxEmit + 1
   /\ \A s \in Slots : calls[s].phase \in {"idle", "pending", "complete", "errored", "cancelled",
                                            "setFailed"}

----------------------------------------------------------------------------
(* Properties                                                              *)

Cacheable(req) == req.method \in {"GET", "HEAD"}

\* The body a replay of the stored record rec is to carry: the stored body
\* for json and text, bytes for arraybuffer, a blob for blob.
TranscodedBody(rec) ==
   IF rec.responseType = "arraybuffer" THEN TextEncoderEncodeBuffer(rec.body)
   ELSE IF rec.responseType = "blob" THEN NewBlob(rec.body)
   ELSE rec.body

\* C1: a GET or HEAD request intercepted while Active whose key is in the
\* store makes no transport call, and its caller receives exactly one
\* response, whose status, headers and body are those of the record stored
\* under the key (the body transcoded for arraybuffer and blob).
C1_HitReplaysStoredRecord ==
   \A s \in Slots :
      LET c == calls[s]
      IN  (c.phase # "idle" /\ c.active /\ Cacheable(c.req) /\ c.present) =>
             /\ c.nHandle = 0
             /\ c.emitted = <<>>
             /\ c.phase = "complete"
             /\ Len(c.delivered) = 1
             /\ IsHttpResponse(c.delivered[1])
             /\ c.delivered[1].status = c.cached.status
             /\ c.delivered[1].headers = c.cached.headers
             /\ c.delivered[1].body = TranscodedBody(c.cached)

C1_Witness ==
   \E s \in Slots :
      /\ calls[s].active /\ calls[s].present
      /\ calls[s].req.responseType = "arraybuffer"
      /\ calls[s].delivered # <<>>

\* The step in which stream s observes the transport's success response.
ObservesResponse(s) ==
   /\ calls[s].phase = "pending"
   /\ calls'[s].phase = "complete"
   /\ IsHttpResponse(calls'[s].emitted[Len(calls'[s].emitted)])

\* C2: a GET or HEAD request intercepted while Active whose key is not in the
\* store makes exactly one transport call; in the step that observes the
\* success response the record stored under the key gets the body, status,
\* status text, headers and response type of that response, and has(key) is
\* true from then on.
C2_MissStoresResponse ==
   [][\A s \in Slots :
         LET c == calls'[s]
             ev == c.emitted[Len(c.emitted)]
         IN  (c.phase # "idle" /\ c.active /\ Cacheable(c.req) /\ ~c.present) =>
                /\ c.nHandle = 1
                /\ c.phase = "complete" => c.refKey \in DOMAIN store'
                /\ ObservesResponse(s) =>
                      /\ store'[c.refKey].body = ev.body
                      /\ store'[c.refKey].status = ev.status
                      /\ store'[c.refKey].statusText = ev.statusText
                      /\ DOMAIN store'[c.refKey].headers = DOMAIN ev.headers
                      /\ \A n \in DOMAIN ev.headers :
                            store'[c.refKey].headers[n] = ev.headers[n]
                      /\ store'[c.refKey].responseType = c.req.responseType]_vars

C2_Witness ==
   \E s \in Slots :
      /\ calls[s].active /\ Cacheable(calls[s].req) /\ ~calls[s].present
      /\ calls[s].phase = "complete"
      /\ calls[s].refKey \in DOMAIN store
      /\ store[calls[s].refKey].headers = HeadersTwo

\* C3: a request intercepted while Inactive, and a request that is neither GET
\* nor HEAD, is forwarded to the transport exactly once, its caller receives
\* the transport's events unchanged, no key is computed for it and it makes
\* no has, get or set on the store.
C3_Bypass ==
   \A s \in Slots :
      LET c == calls[s]
      IN  (c.phase # "idle" /\ (~c.active \/ ~Cacheable(c.req))) =>
             /\ c.nHandle = 1
             /\ c.delivered = c.emitted
             /\ c.nKey = 0
             /\ c.nHas = 0 /\ c.nGet = 0 /\ c.nSet = 0

C3_Witness ==
   /\ \E s \in Slots :
         /\ calls[s].active /\ ~Cacheable(calls[s].req)
         /\ calls[s].phase = "complete"
   /\ \E s \in Slots :
         /\ ~calls[s].active /\ Cacheable(calls[s].req) /\ calls[s].present
         /\ calls[s].phase = "complete"

\* The step in which the tap of stream s writes the store.
Writes(s) == calls[s].phase = "pending" /\ calls'[s].nSet = calls[s].nSet + 1

\* The step in which a request is answered from the store.
ServesFromStore(s) == calls[s].phase # "pending" /\ calls'[s] # calls[s]
                         /\ calls'[s].path = "hit"

\* C4 as stated: while the lifecycle is Inactive no step writes the store or
\* serves a response from it.
C4_NoStoreUseWhileInactive ==
   [][~isCacheActive => \A s \in Slots : ~Writes(s) /\ ~ServesFromStore(s)]_vars

\* C4 as amended: a request intercepted while the lifecycle is Inactive is
\* never served from the store and never written to it; a store write made
\* while Inactive belongs to a miss that was intercepted while Active, and no
\* response is served from the store while Inactive.
C4_InactiveRequestsNeverUseStore ==
   [][\A s \in Slots :
         /\ (calls'[s].phase # "idle" /\ ~calls'[s].active) =>
               /\ calls'[s].path # "hit"
               /\ calls'[s].nSet = 0
               /\ calls'[s].nHas = 0 /\ calls'[s].nGet = 0
         /\ (~isCacheActive /\ Writes(s)) => (calls[s].active /\ Cacheable(calls[s].req))
         /\ ~isCacheActive => ~ServesFromStore(s)]_vars

C4_Witness ==
   /\ ~isCacheActive
   /\ \E s, t \in Slots :
         /\ calls[s].active /\ calls[s].path = "miss" /\ calls[s].phase = "complete"
         /\ ~calls[t].active /\ ~calls[t].present /\ calls[t].phase = "complete"
         /\ calls[t].refKey = calls[s].refKey
         /\ calls[s].refKey \in DOMAIN store

\* C5: the lifecycle flag is Active after construction, and once it is
\* Inactive no step makes it Active again.
C5_LifecycleMonotonic ==
   /\ isCacheActive = TRUE
   /\ [][~isCacheActive => ~isCacheActive']_vars

C5_Witness ==
   /\ ~isCacheActive
   /\ Len(signalLog) = MaxEmit
   /\ signalLog[1]
   /\ \E s \in Slots : calls[s].phase = "complete" /\ ~calls[s].active

\* C6: while isStable has emitted nothing but false the lifecycle is Active;
\* once it has emitted true the lifecycle is Inactive; the deactivation
\* callback runs at most once.
C6_FirstTrueDeactivates ==
   /\ (srcState = "live" /\ \A i \in 1..Len(signalLog) : ~signalLog[i]) => isCacheActive
   /\ (\E i \in 1..Len(signalLog) : signalLog[i]) => ~isCacheActive
   /\ deactivations <= 1

C6_Witness ==
   /\ Len(signalLog) >= 2
   /\ signalLog[Len(signalLog)] /\ signalLog[Len(signalLog) - 1]
   /\ deactivations = 1

\* C7: once isStable has completed without having emitted true, the
\* lifecycle is Inactive.
C7_EmptyCompletionDeactivates ==
   (srcState = "completed" /\ \A i \in 1..Len(signalLog) : ~signalLog[i])
      => ~isCacheActive

\* C8: when isStable terminates with an error the lifecycle eventually
\* becomes Inactive.
C8_ErrorLeadsToInactive == (srcState = "errored") ~> ~isCacheActive

\* C9: the store changes only in the step in which a miss observes the
\* transport's success response; a non-response event, a transport failure
\* and a cancellation leave the store as it is.
C9_StoreWrittenOnlyOnResponse ==
   [][/\ store' # store =>
            \E s \in Slots : calls[s].path = "miss" /\ ObservesResponse(s)
      /\ \A s \in Slots :
            (calls[s].phase = "pending" /\ calls'[s] # calls[s] /\ ~ObservesResponse(s))
               => /\ store' = store
                  /\ calls'[s].nSet = calls[s].nSet]_vars

C9_Witness ==
   \E s \in Slots :
      /\ calls[s].path = "miss"
      /\ calls[s].emitted = <<ProgressEvent>>
      /\ calls[s].phase \in {"errored", "cancelled"}
      /\ calls[s].refKey \notin DOMAIN store

\* C10: on the miss path the caller has received exactly the events the
\* transport has emitted, in the same order and unmodified.
C10_MissForwardsEventsUnchanged ==
   \A s \in Slots :
      LET c == calls[s]
      IN  (c.phase # "idle" /\ c.active /\ Cacheable(c.req) /\ ~c.present) =>
             c.delivered = c.emitted

C10_Witness ==
   \E s \in Slots :
      /\ calls[s].active /\ Cacheable(calls[s].req) /\ ~calls[s].present
      /\ calls[s].phase = "complete"
      /\ Len(calls[s].delivered) = 2
      /\ calls[s].delivered[2].url = NullStr
      /\ calls[s].refKey \in DOMAIN store

\* C11: when the set() of the miss path fails, the caller still receives the
\* transport's success response and the stream does not end with the error of
\* the write.
C11_WriteFailureNotPropagated ==
   \A s \in Slots :
      LET c == calls[s]
      IN  (c.path = "miss" /\ c.emitted # <<>>
             /\ IsHttpResponse(c.emitted[Len(c.emitted)])) =>
             /\ c.phase = "complete"
             /\ c.delivered = c.emitted

\* The set of a request's parameters: every name with its list of values.
ParamSet(params) == {params[i] : i \in 1..Len(params)}

\* Same method, URL, response type and parameters, the names in any order.
LogicallyIdentical(q, r) ==
   /\ q.method = r.method
   /\ q.url = r.url
   /\ q.responseType = r.responseType
   /\ ParamSet(q.params) = ParamSet(r.params)

\* Stream s is a GET that was a miss while Active and has observed its
\* success response.
CompletedMiss(s) ==
   /\ calls[s].phase = "complete" /\ calls[s].path = "miss"
   /\ calls[s].active /\ calls[s].req.method = "GET"

\* The step in which intercept() is called and its stream takes slot t.
InterceptedNow(t) == calls[t].phase # "pending" /\ calls'[t] # calls[t]

SignalFiredTrue == \E i \in 1..Len(signalLog) : signalLog[i]

\* C12: after a GET has completed as a miss, a later logically
\* identical request intercepted while Active makes no transport call and
\* returns the body of that miss; one intercepted after the signal has fired
\* true makes a transport call.
C12_RepeatReturnsBodyOfTheMiss ==
   [][\A s, t \in Slots :
         (s # t /\ CompletedMiss(s) /\ InterceptedNow(t)
            /\ LogicallyIdentical(calls[s].req, calls'[t].req)) =>
            /\ isCacheActive =>
                  /\ calls'[t].nHandle = 0
                  /\ calls'[t].delivered # <<>>
                  /\ calls'[t].delivered[1].body
                        = calls[s].emitted[Len(calls[s].emitted)].body
            /\ SignalFiredTrue => calls'[t].nHandle = 1]_vars

\* Stream s was intercepted while Active for a GET or HEAD whose key had no
\* record: a miss by the contract.
MissByContract(c) == c.phase # "idle" /\ c.active /\ Cacheable(c.req) /\ ~c.present

\* C13: a GET or HEAD intercepted while Active, while a logically identical
\* one is in flight, is a miss with its own transport call if no record has
\* been written under the key, and a hit if one has; every one of the misses
\* writes the store when it observes its response, so the record under the key
\* is that of the response observed last.
C13_ConcurrentIdenticalRequests ==
   [][/\ \A s, t \in Slots :
            (s # t /\ calls[s].phase = "pending" /\ MissByContract(calls[s])
               /\ InterceptedNow(t) /\ isCacheActive
               /\ LogicallyIdentical(calls[s].req, calls'[t].req)) =>
               /\ calls'[t].refKey = calls[s].refKey
               /\ calls[s].nHandle = 1
               /\ IF calls[s].refKey \in DOMAIN store
                  THEN calls'[t].nHandle = 0 /\ calls'[t].phase = "complete"
                          /\ Len(calls'[t].delivered) = 1
                  ELSE calls'[t].nHandle = 1 /\ calls'[t].phase = "pending"
      /\ \A s, t \in Slots :
            (s # t /\ MissByContract(calls[s]) /\ MissByContract(calls[t])
               /\ LogicallyIdentical(calls[s].req, calls[t].req)
               /\ ObservesResponse(t)) =>
               /\ calls'[t].nSet = 1
               /\ calls[s].phase = "complete" => calls[s].nSet = 1
               /\ store'[calls[t].refKey]
                     = MakeRecord(calls'[t].emitted[Len(calls'[t].emitted)],
                                  calls[t].req)]_vars

\* Two misses for the same key, by requests that name their parameters in a
\* different order, have both observed a response, and the responses differ.
C13_Witness ==
   \E s, t \in Slots :
      /\ s # t /\ MissByContract(calls[s]) /\ MissByContract(calls[t])
      /\ calls[s].req # calls[t].req
      /\ LogicallyIdentical(calls[s].req, calls[t].req)
      /\ calls[s].phase = "complete" /\ calls[t].phase = "complete"
      /\ calls[s].nSet = 1 /\ calls[t].nSet = 1
      /\ calls[s].emitted[Len(calls[s].emitted)]
            # calls[t].emitted[Len(calls[t].emitted)]
      /\ store[calls[s].refKey]
            = MakeRecord(calls[t].emitted[Len(calls[t].emitted)], calls[t].req)


\* sub occurs in s as a contiguous piece.
IsSubstring(sub, s) ==
   \E i \in 0..(Len(s) - Len(sub)) : SubSeq(s, i + 1, i + Len(sub)) = sub

\* name=value1,value2,... with the values in their order of insertion.
RenderedPair(p) ==
   LET RECURSIVE Values(_)
       Values(vs) == IF vs = <<>> THEN <<>>
                     ELSE IF Len(vs) = 1 THEN vs[1]
                     ELSE vs[1] \o <<",">> \o Values(Tail(vs))
   IN  p.name \o <<"=">> \o Values(p.values)

\* C14: argument lists with the same method, URL, response type and per-name
\* value lists give the same key whatever the order of the names, and the key
\* holds, for every name, the name followed by its values in their order of
\* insertion.
C14_KeyIgnoresNameOrder ==
   probe.stage = "keys" =>
      /\ LogicallyIdentical(probe.a, probe.b) => probe.keyA = probe.keyB
      /\ \A i \in 1..Len(probe.a.params) :
            IsSubstring(RenderedPair(probe.a.params[i]), probe.keyA)

\* The keys of two argument lists that name the same parameters in a
\* different order, one of them with two values.
C14_Witness ==
   /\ probe.stage = "keys"
   /\ probe.a.params = ParamsSortPage /\ probe.b.params = ParamsPageSort
   /\ LogicallyIdentical(probe.a, probe.b)
   /\ probe.keyA = probe.keyB


\* C15: argument lists that differ in method, response type, URL or
\* parameter set never get the same key.
C15_KeyInjective ==
   probe.stage = "keys" =>
      (~LogicallyIdentical(probe.a, probe.b) => probe.keyA # probe.keyB)

\* The least of a non-empty set of strings in the order of code units.
LeastName(names) == CHOOSE n \in names : \A m \in names \ {n} : StrLess(n, m)

\* The reference parameter string: the pairs name=value1,value2,... by
\* ascending name, joined with '&'.
RECURSIVE ReferenceParams(_)
ReferenceParams(entries) ==
   IF entries = {} THEN <<>>
   ELSE LET n == LeastName({e.name : e \in entries})
            e == CHOOSE x \in entries : x.name = n
            rest == entries \ {e}
        IN  RenderedPair(e)
               \o (IF rest = {} THEN <<>> ELSE <<"&">> \o ReferenceParams(rest))

\* The reference string with sep after the method discriminator and after
\* the response-type tag.
ReferenceKey(r, sep) ==
   (IF r.method = "GET" THEN <<"G">> ELSE <<"H">>) \o sep
      \o ResponseTypeChars(r.responseType) \o sep
      \o r.url \o <<"?">> \o ReferenceParams(ParamSet(r.params))

\* C16 as stated: the key is the method discriminator, the response-type
\* tag, the URL, '?' and the parameter string, one right after the other.
C16_KeyIsReferenceString ==
   probe.stage = "keys" => probe.keyA = ReferenceKey(probe.a, <<>>)

\* C16 as amended: the key is the method discriminator, '.', the
\* response-type tag, '.', the URL, '?' and the parameter string of the sorted
\* names; the '?' is there without parameters too.
C16_KeyIsDottedReferenceString ==
   probe.stage = "keys" =>
      /\ probe.keyA = ReferenceKey(probe.a, <<".">>)
      /\ probe.a.params = <<>> => probe.keyA[Len(probe.keyA)] = "?"

\* The keys of a HEAD request with two parameters named out of order and of
\* a request without parameters.
C16_Witness ==
   /\ probe.stage = "keys"
   /\ probe.a.method = "HEAD" /\ probe.a.params = ParamsSortPage
   /\ probe.b.params = <<>>
   /\ probe.keyA = <<"H", ".">> \o ResponseTypeChars(probe.a.responseType) \o <<".">>
         \o probe.a.url
         \o <<"?", "p", "a", "g", "e", "=", "3", "&", "s", "o", "r", "t", "=", "1", ",", "2">>


\* The last event stream s got from the transport.
LastEvent(s) == calls[s].emitted[Len(calls[s].emitted)]

\* C17: when the record under a key is the one a miss stored for its
\* response, a hit on that key delivers the status, the header map and the
\* body of that response, and a byte-buffer body is held in the store as text.
C17_RoundTrip ==
   [][\A s, t \in Slots :
         (s # t /\ MissByContract(calls[s]) /\ calls[s].phase = "complete"
            /\ InterceptedNow(t) /\ isCacheActive
            /\ LogicallyIdentical(calls[s].req, calls'[t].req)
            /\ store[calls[s].refKey] = MakeRecord(LastEvent(s), calls[s].req)) =>
            /\ Len(calls'[t].delivered) = 1
            /\ calls'[t].delivered[1].status = LastEvent(s).status
            /\ calls'[t].delivered[1].headers = LastEvent(s).headers
            /\ calls'[t].delivered[1].body = LastEvent(s).body
            /\ LastEvent(s).body.kind = "ArrayBuffer" =>
                  store[calls[s].refKey].body.kind = "string"]_vars


\* C18: a hit on a record whose response type is missing or is neither
\* 'arraybuffer' nor 'blob', or on a stored null, delivers one success
\* response whose body is the stored body (null when there is none).
C18_UnknownTypePassesThrough ==
   \A s \in Slots :
      LET c == calls[s]
      IN  (c.phase # "idle" /\ c.active /\ Cacheable(c.req) /\ c.present
             /\ c.cached.responseType \notin {"arraybuffer", "blob"}) =>
             /\ c.phase = "complete"
             /\ c.nHandle = 0
             /\ Len(c.delivered) = 1
             /\ IsHttpResponse(c.delivered[1])
             /\ c.delivered[1].status \in 200..299
             /\ c.delivered[1].body
                   = IF c.cached.body.kind = "undefined" THEN NullBody ELSE c.cached.body

\* One request was served from a stored null and another from a record of an
\* unknown response type.
C18_Witness ==
   \E s, t \in Slots :
      /\ calls[s].active /\ calls[s].present /\ calls[s].cached = NoRecord
      /\ calls[s].delivered # <<>>
      /\ calls[t].active /\ calls[t].present /\ calls[t].cached = RecordOfUnknownType
      /\ calls[t].delivered # <<>>


\* C19: whenever a caller has observed the success response of a miss, the
\* key of the miss is in the store; a request for that key issued from the
\* caller's response handler while Active makes no transport call and gets
\* the stored response.
C19_WriteBeforeDelivery ==
   /\ \A s \in Slots :
         (MissByContract(calls[s]) /\ calls[s].phase = "complete") =>
            hasKey(store, calls[s].refKey)
   /\ \A t \in Slots :
         LET c == calls[t]
         IN  (c.inHandlerOf # <<>> /\ c.inHandlerOf = c.refKey /\ c.active
                /\ Cacheable(c.req)) =>
                /\ c.present
                /\ c.nHandle = 0
                /\ c.phase = "complete"
                /\ Len(c.delivered) = 1

\* The handler of a miss issued the same request with its parameters in the
\* other order, while Active.
C19_Witness ==
   \E s, t \in Slots :
      /\ s # t /\ MissByContract(calls[s]) /\ calls[s].phase = "complete"
      /\ calls[t].inHandlerOf = calls[s].refKey
      /\ calls[t].refKey = calls[s].refKey
      /\ calls[t].req # calls[s].req
      /\ calls[t].active
      /\ calls[t].delivered # <<>>


\* The response-type tag written in key k: what stands between the dot after
\* the method discriminator and the next dot.
RECURSIVE UpToDot(_)
UpToDot(cs) ==
   IF cs = <<>> \/ Head(cs) = "." THEN <<>> ELSE <<Head(cs)>> \o UpToDot(Tail(cs))
TagOfKey(k) == UpToDot(SubSeq(k, 3, Len(k)))

\* C20: every key of the store is the key of a GET or HEAD request of the
\* application, the record under it has the response type written in the key,
\* and the transcoding of a hit is the one the requesting call's response
\* type selects.
C20_RecordTypeMatchesKey ==
   /\ \A k \in DOMAIN store :
         /\ \E r \in requests :
               /\ r.method \in {"GET", "HEAD"}
               /\ k = makeCacheKey(r.method, r.url, r.params, r.responseType)
         /\ store[k].responseType \in ResponseTypes
         /\ TagOfKey(k) = ResponseTypeChars(store[k].responseType)
   /\ \A s \in Slots :
         LET c == calls[s]
         IN  (c.phase # "idle" /\ c.active /\ Cacheable(c.req) /\ c.present) =>
                /\ c.cached.responseType = c.req.responseType
                /\ c.delivered[1].body
                      = HitBody([c.cached EXCEPT !.responseType = c.req.responseType])

\* The store holds records of two response types and a request for a blob
\* was served from it.
C20_Witness ==
   /\ \E k1, k2 \in DOMAIN store : store[k1].responseType # store[k2].responseType
   /\ \E s \in Slots :
         /\ calls[s].active /\ calls[s].present
         /\ calls[s].req.responseType = "blob"
         /\ calls[s].delivered # <<>>


====
